---- MODULE Spec2Model ----
\* A state-machine model of the news-system orchestration core:
\* NewsRoom.run (per-lead log redirection), BaseJournalist.run,
\* BaseEditor._run, BasicEditor (plan + round-robin assignment) and
\* BaseInvestigator._run with the two shipped investigators.
EXTENDS Integers, Sequences, FiniteSets, TLC

\* ---------------------------------------------------------------------
\* Bounds
\* ---------------------------------------------------------------------
MaxTasks == 2
MaxRuns == 2
MaxLoggers == 3
\* calls of _setup_logger in a behaviour
MaxSetups == 2

\* ---------------------------------------------------------------------
\* Names, roles and handlers
\* ---------------------------------------------------------------------
RoomName == "BasicNewsRoom"
EditorDefaultName == "BasicEditorForNewsRoom"
LeadIds == {"lead1", "lead2"}
\* the lead_id of an object that has lead_id and content and is not a Lead
MemoId == "memo"
Leads == LeadIds \cup {MemoId}

\* Investigator instances: identity, logger name and concrete class.
One == [id |-> 1, name |-> "BasicInvestigatorOne", kind |-> "BasicInvestigatorOne"]
Two == [id |-> 2, name |-> "BasicInvestigatorTwo", kind |-> "BasicInvestigatorTwo"]
\* a second BasicInvestigatorTwo instance constructed with the same name
Twin == [id |-> 3, name |-> "BasicInvestigatorTwo", kind |-> "BasicInvestigatorTwo"]
\* a custom BaseInvestigator subclass (see CustomInvestigate)
Flaky == [id |-> 4, name |-> "Flaky", kind |-> "Custom"]

LoggerNames ==
  {RoomName, EditorDefaultName, One.name, Two.name, Flaky.name}

\* (NewsRoom.investigators, BasicEditor.investigators) as passed to the
\* two constructors.
Rosters ==
  { << <<One, Two>>, <<One, Two>> >>,
    << <<Two, Flaky>>, <<Two, Flaky>> >>,
    << <<Flaky>>, <<Flaky>> >>,
    << <<Two, Twin>>, <<Two, Twin>> >>,
    << <<One, Two>>, <<>> >>,
    << <<Two>>, <<Two, Flaky>> >>,
    << <<One, Two, Flaky>>, <<One, Two, Flaky>> >> }

NullHandler(n) == [kind |-> "NullHandler", path |-> n, uid |-> 0]
StreamHandler(n) == [kind |-> "StreamHandler", path |-> n, uid |-> 0]
FileHandler(p, u) == [kind |-> "FileHandler", path |-> p, uid |-> u]
RootHandler == [kind |-> "StreamHandler", path |-> "root", uid |-> 0]
NoHandler == [kind |-> "None", path |-> "", uid |-> 0]

EmptyMap == [x \in {} |-> {}]

VARIABLES
  \* construction-time configuration
  editor_name, investigators, roster, journal_dir, app_configured,
  \* logging module state
  handlers, propagate, open_streams, files, reached, emitted,
  \* BasicEditor
  investigator_idx,
  \* NewsRoom.run frame
  pc, lead, lead_file_handler, all_loggers_for_lead, i,
  original_handlers_map, original_propagate_map, exc, result,
  \* BaseEditor._run / BaseInvestigator._run frames
  tasks, k, solved_tasks, investigator, outcome,
  \* history of the current call
  runs, pre_handlers, pre_propagate, pre_files, pre_open, idx_at_start,
  worker_calls, outcomes,
  \* a second NewsRoom.run frame on the same room (nested or overlapping)
  mode2, pc2, lead_file_handler2, i2, original_handlers_map2,
  original_propagate_map2, restored_late2, resume_pc,
  \* redirect_loggers_to_handler frame
  r_pc, loggers, target_handler, r_i, original_states, r_exc,
  \* BaseJournalist._setup_logger: the root logger, the calls so far, the
  \* arguments and the day of the last call, how it ended
  root_has_handlers, s_calls, logger_name, s_journal_dir, log_filename,
  s_day, s_exc

cfgVars == <<editor_name, investigators, roster, journal_dir, app_configured>>
logVars == <<handlers, propagate, open_streams, files, reached, emitted>>
roomVars == <<pc, lead, lead_file_handler, all_loggers_for_lead, i,
              original_handlers_map, original_propagate_map, exc, result>>
editVars == <<tasks, k, solved_tasks, investigator, outcome>>
histVars == <<runs, pre_handlers, pre_propagate, pre_files, pre_open,
              idx_at_start, worker_calls, outcomes>>
secondVars == <<mode2, pc2, lead_file_handler2, i2, original_handlers_map2,
                original_propagate_map2, restored_late2, resume_pc>>
redirVars == <<r_pc, loggers, target_handler, r_i, original_states, r_exc>>
setupVars == <<root_has_handlers, s_calls, logger_name, s_journal_dir,
               log_filename, s_day, s_exc>>
otherVars == <<secondVars, redirVars, setupVars>>
vars == <<cfgVars, logVars, investigator_idx, roomVars, editVars, histVars,
          otherVars>>

\* ---------------------------------------------------------------------
\* logging: Logger.addHandler / removeHandler / callHandlers, FileHandler
\* ---------------------------------------------------------------------
RECURSIVE SeqRemove(_, _)
SeqRemove(s, h) ==
  IF s = <<>> THEN <<>>
  ELSE IF Head(s) = h THEN SeqRemove(Tail(s), h)
       ELSE <<Head(s)>> \o SeqRemove(Tail(s), h)

InSeq(s, h) == \E j \in 1..Len(s) : s[j] = h

\* Logger.addHandler: append unless already attached
addHandler(s, h) == IF InSeq(s, h) THEN s ELSE Append(s, h)

\* (removeHandler that leaves the handler attached)
removeHandler_Ignored(s, h) == s

\* Logger.removeHandler
removeHandler(s, h) == SeqRemove(s, h)

SetMinIndex(S) == CHOOSE x \in S : \A y \in S : x <= y

RECURSIVE addHandlers(_, _)
addHandlers(s, hs) ==
  IF hs = <<>> THEN s ELSE addHandlers(addHandler(s, Head(hs)), Tail(hs))

FileHandlersOf(s) == {s[j] : j \in {j \in 1..Len(s) : s[j].kind = "FileHandler"}}

\* The part of the logging state a record can change, with the list of
\* the records emitted since the current call began.
LogState == [files |-> files, open_streams |-> open_streams, reached |-> reached,
             emitted |-> emitted]

\* Handler.handle(record): a FileHandler (re)opens its stream in append
\* mode when it is None and writes the record; the others write no file.
Deliver(ls, h, rec) ==
  IF h.kind = "FileHandler"
  THEN [ls EXCEPT !.files = (h.path :> Append(IF h.path \in DOMAIN ls.files
                                               THEN ls.files[h.path] ELSE <<>>, rec))
                            @@ ls.files,
                  !.open_streams = @ \cup {h},
                  !.reached = @ \cup {h}]
  ELSE [ls EXCEPT !.reached = @ \cup {h}]

RECURSIVE DeliverAll(_, _, _)
DeliverAll(ls, hs, rec) ==
  IF hs = <<>> THEN ls ELSE DeliverAll(Deliver(ls, Head(hs), rec), Tail(hs), rec)

\* Logger.info/warning/error -> callHandlers: the logger's own handlers,
\* then the root logger's when propagate is set.
Emit(ls, n, msg) ==
  LET rec == [name |-> n, msg |-> msg]
      own == DeliverAll([ls EXCEPT !.emitted = Append(@, rec)], handlers[n], rec)
  IN IF propagate[n] THEN Deliver(own, RootHandler, rec) ELSE own

RECURSIVE EmitAll(_, _)
EmitAll(ls, recs) ==
  IF recs = <<>> THEN ls
  ELSE EmitAll(Emit(ls, Head(recs)[1], Head(recs)[2]), Tail(recs))

SetLog(ls) ==
  /\ files' = ls.files
  /\ open_streams' = ls.open_streams
  /\ reached' = ls.reached
  /\ emitted' = ls.emitted
  /\ UNCHANGED <<handlers, propagate>>

\* ---------------------------------------------------------------------
\* Construction
\* ---------------------------------------------------------------------
\* Logger state after BaseJournalist.__init__ / NewsRoom.__init__ on a
\* fresh logger: one NullHandler, propagate False.
FreshHandlers == [n \in LoggerNames |-> <<NullHandler(n)>>]
FreshPropagate == [n \in LoggerNames |-> FALSE]

\* Loggers the application configured itself: own log file plus console
\* (the constructors keep them, hasHandlers being true), and propagation
\* switched back on after construction.
AppPropagate == [n \in LoggerNames |-> TRUE]
AppHandlers == [n \in LoggerNames |-> <<FileHandler(n, 0), StreamHandler(n)>>]

InitialHandlers(app) == IF app THEN AppHandlers ELSE FreshHandlers
InitialPropagate(app) == IF app THEN AppPropagate ELSE FreshPropagate

\* Everything but the configuration and the loggers: no call has been
\* made yet.
InitFrames ==
  /\ reached = {}
  /\ emitted = <<>>
  /\ investigator_idx = 0
  /\ pc = "idle"
  /\ lead = "lead1"
  /\ lead_file_handler = NoHandler
  /\ all_loggers_for_lead = <<>>
  /\ i = 1
  /\ original_handlers_map = EmptyMap
  /\ original_propagate_map = EmptyMap
  /\ exc = "none"
  /\ result = <<>>
  /\ tasks = <<>>
  /\ k = 1
  /\ solved_tasks = <<>>
  /\ investigator = One
  /\ outcome = "none"
  /\ runs = 0
  /\ pre_handlers = handlers
  /\ pre_propagate = propagate
  /\ pre_files = files
  /\ pre_open = open_streams
  /\ idx_at_start = 0
  /\ worker_calls = 0
  /\ outcomes = <<>>
  /\ mode2 = "none"
  /\ pc2 = "idle"
  /\ lead_file_handler2 = NoHandler
  /\ i2 = 1
  /\ original_handlers_map2 = EmptyMap
  /\ original_propagate_map2 = EmptyMap
  /\ restored_late2 = {}
  /\ resume_pc = "idle"
  /\ r_pc = "idle"
  /\ loggers = <<>>
  /\ target_handler = NoHandler
  /\ r_i = 1
  /\ original_states = EmptyMap
  /\ r_exc = "none"
  /\ s_calls = 0
  /\ logger_name = "none"
  /\ s_journal_dir = "none"
  /\ log_filename = "none"
  /\ s_day = 1
  /\ s_exc = "none"

Init ==
  /\ editor_name \in {EditorDefaultName, RoomName}
  /\ \E r \in Rosters : investigators = r[1] /\ roster = r[2]
  /\ journal_dir \in BOOLEAN
  /\ app_configured \in BOOLEAN
  /\ handlers = InitialHandlers(app_configured)
  /\ propagate = InitialPropagate(app_configured)
  /\ open_streams = IF app_configured THEN {FileHandler(n, 0) : n \in LoggerNames} ELSE {}
  /\ files = IF app_configured THEN [n \in LoggerNames |-> <<>>] ELSE EmptyMap
  /\ root_has_handlers = TRUE
  /\ InitFrames

\* ---------------------------------------------------------------------
\* NewsRoom.run: acquisition and capture (before the try block)
\* ---------------------------------------------------------------------
RECURSIVE LoggerNamesOf(_)
LoggerNamesOf(js) ==
  IF js = <<>> THEN <<>> ELSE <<Head(js).name>> \o LoggerNamesOf(Tail(js))

\* [self.logger] + [j.logger for j in [self.editor] + self.investigators]
AllLoggersForLead == <<RoomName, editor_name>> \o LoggerNamesOf(investigators)

\* (the file named after the newsroom instead of the lead)
Sink_PerRoom(l, r) == FileHandler(RoomName, r)

\* logging.FileHandler(<journal_dir>/<lead_id>.log, mode="a")
Sink(l, r) == FileHandler(l, r)

\* (the file opened with mode="w": its content is dropped)
OpenAppend_Truncating(fs, p) == (p :> <<>>) @@ fs

\* open(path, "a"): the file is created empty when absent and kept as it
\* is otherwise.
OpenAppend(fs, p) == IF p \in DOMAIN fs THEN fs ELSE (p :> <<>>) @@ fs

ResetFrames ==
  /\ original_handlers_map' = EmptyMap
  /\ original_propagate_map' = EmptyMap
  /\ result' = <<>>
  /\ tasks' = <<>>
  /\ k' = 1
  /\ solved_tasks' = <<>>
  /\ outcome' = "none"
  /\ UNCHANGED investigator

Snapshot ==
  /\ pre_handlers' = handlers
  /\ pre_propagate' = propagate
  /\ pre_files' = files
  /\ pre_open' = open_streams
  /\ worker_calls' = 0
  /\ outcomes' = <<>>
  /\ UNCHANGED <<runs, idx_at_start>>

\* run(lead) with a journal_dir: the sink is opened in append mode
\* (creating the file when absent) and the logger list is built.
BeginRun(l) ==
  /\ pc = "idle" /\ runs < MaxRuns
  /\ journal_dir
  /\ lead' = l
  /\ lead_file_handler' = Sink(l, runs + 1)
  /\ files' = OpenAppend(files, l)
  /\ open_streams' = open_streams \cup {Sink(l, runs + 1)}
  /\ reached' = {}
  /\ emitted' = <<>>
  /\ all_loggers_for_lead' = AllLoggersForLead
  /\ i' = 1
  /\ pc' = "capture"
  /\ exc' = "none"
  /\ ResetFrames /\ Snapshot
  /\ UNCHANGED <<cfgVars, otherVars, handlers, propagate, investigator_idx>>

\* run(lead) without a journal_dir: a warning on the newsroom's own
\* logger, no sink, no capture.
BeginRunNoJournal(l) ==
  /\ pc = "idle" /\ runs < MaxRuns
  /\ ~journal_dir
  /\ lead' = l
  /\ lead_file_handler' = NoHandler
  /\ LET ls0 == [LogState EXCEPT !.reached = {}, !.emitted = <<>>]
     IN SetLog(Emit(ls0, RoomName, "no journal_dir"))
  /\ all_loggers_for_lead' = AllLoggersForLead
  /\ i' = 1
  /\ pc' = "try"
  /\ exc' = "none"
  /\ ResetFrames /\ Snapshot
  /\ UNCHANGED <<cfgVars, otherVars, investigator_idx>>

\* logging.FileHandler(...) raises (the file cannot be opened): run
\* raises before any logger is touched.
OpenSinkFails(l) ==
  /\ pc = "idle" /\ runs < MaxRuns
  /\ journal_dir
  /\ lead' = l
  /\ lead_file_handler' = NoHandler
  /\ reached' = {}
  /\ emitted' = <<>>
  /\ all_loggers_for_lead' = <<>>
  /\ i' = 1
  /\ pc' = "done"
  /\ exc' = "OSError"
  /\ ResetFrames /\ Snapshot
  /\ UNCHANGED <<cfgVars, otherVars, handlers, propagate, open_streams, files, investigator_idx>>

\* One iteration of the capture loop: save handlers and propagate of the
\* i-th logger, close its file handlers, remove every handler, attach
\* the sink and switch propagation off.
CaptureStep ==
  /\ pc = "capture" /\ i <= Len(all_loggers_for_lead)
  /\ LET n == all_loggers_for_lead[i]
     IN /\ original_handlers_map' = (n :> handlers[n]) @@ original_handlers_map
        /\ original_propagate_map' = (n :> propagate[n]) @@ original_propagate_map
        /\ open_streams' = open_streams \ FileHandlersOf(handlers[n])
        /\ handlers' = [handlers EXCEPT ![n] = addHandler(<<>>, lead_file_handler)]
        /\ propagate' = [propagate EXCEPT ![n] = FALSE]
  /\ i' = i + 1
  /\ pc' = IF i = Len(all_loggers_for_lead) THEN "try" ELSE "capture"
  /\ UNCHANGED <<cfgVars, otherVars, files, reached, emitted, investigator_idx, lead,
                 lead_file_handler, all_loggers_for_lead, exc, result,
                 editVars, histVars>>

\* ---------------------------------------------------------------------
\* The try block: NewsRoom -> BaseJournalist.run -> BaseEditor._run
\* ---------------------------------------------------------------------
\* (a try block without the finally clause)
FinallyPc_NoCleanup == "done"

\* (the finally clause without its "if lead_file_handler" guard)
FinallyPc_Unguarded == "restore"

\* Where control goes when the try block is left: the finally clause
\* restores only when a sink was opened.
FinallyPc == IF lead_file_handler # NoHandler THEN "restore" ELSE "done"

\* BaseJournalist.run: the records of one invocation up to a point
\* inside _run, and from a point inside _run to the return.
StartMarker(n) == <<n, "Starting execution">>
FinishMarker(n) == <<n, "Finished execution">>

\* (the start marker logged after _run has begun)
RunBegins_MarkerLate(n, recs) == recs \o <<StartMarker(n)>>

RunBegins(n, recs) == <<StartMarker(n)>> \o recs
RunEnds(n, recs) == recs \o <<FinishMarker(n)>>

\* (no isinstance check)
IsLead_Anything(l) == TRUE

\* isinstance(lead, Lead)
IsLead(l) == l \in LeadIds

\* self.logger.info("received lead"); editor.run(lead=lead): start
\* marker, then _run validates the lead and logs "[Editor] Starting".
ReceiveLead ==
  /\ pc = "try"
  /\ IsLead(lead)
  /\ SetLog(EmitAll(LogState,
                    << <<RoomName, "received lead">> >> \o
                    RunBegins(editor_name, << <<editor_name, "[Editor] Starting lead">> >>)))
  /\ idx_at_start' = investigator_idx
  /\ pc' = "plan"
  /\ UNCHANGED <<cfgVars, otherVars, investigator_idx, lead, lead_file_handler,
                 all_loggers_for_lead, i, original_handlers_map,
                 original_propagate_map, exc, result, editVars,
                 runs, pre_handlers, pre_propagate, pre_files, pre_open,
                 worker_calls, outcomes>>

\* editor.run(lead=lead) with an object that is not a Lead: start marker,
\* then _run logs the error and raises ValueError, which leaves
\* editor.run and the try block.
ReceiveLeadInvalid ==
  /\ pc = "try"
  /\ ~IsLead(lead)
  /\ SetLog(EmitAll(LogState,
                    << <<RoomName, "received lead">> >> \o
                    RunBegins(editor_name, << <<editor_name, "'lead' argument must be provided">> >>)))
  /\ idx_at_start' = investigator_idx
  /\ exc' = "ValueError"
  /\ pc' = FinallyPc
  /\ i' = 1
  /\ UNCHANGED <<cfgVars, otherVars, investigator_idx, lead, lead_file_handler,
                 all_loggers_for_lead, original_handlers_map,
                 original_propagate_map, result, editVars,
                 runs, pre_handlers, pre_propagate, pre_files, pre_open,
                 worker_calls, outcomes>>

\* InvestigationTask(task_id=..., assigned_to="") with the model's
\* defaults: status "pending", result None, completed_at None.
NewTask(t) == [task_id |-> t, assigned_to |-> "", status |-> "pending",
               has_result |-> FALSE, completed |-> FALSE]

\* generate_plan(lead): n new pending tasks (BasicEditor: n = 2).
GeneratePlan(n) ==
  /\ pc = "plan"
  /\ SetLog(EmitAll(LogState, << <<editor_name, "generating plan">>,
                                <<editor_name, "generated tasks">> >>))
  /\ tasks' = [t \in 1..n |-> NewTask(t)]
  /\ k' = 1
  /\ solved_tasks' = <<>>
  /\ pc' = "assign"
  /\ UNCHANGED <<cfgVars, otherVars, investigator_idx, lead, lead_file_handler,
                 all_loggers_for_lead, i, original_handlers_map,
                 original_propagate_map, exc, result, investigator, outcome,
                 histVars>>

\* (the index taken after the increment instead of before it)
RoundRobin_AfterIncrement(r, idx) == r[((idx + 1) % Len(r)) + 1]

\* self.investigators[self.investigator_idx % len(self.investigators)]
RoundRobin(r, idx) == r[(idx % Len(r)) + 1]

\* (the counter kept inside the roster's index range)
Advance_Wraps(r, idx) == (idx + 1) % Len(r)

\* self.investigator_idx += 1
Advance(r, idx) == idx + 1

\* (the class name stored instead of the instance's name)
AssignedName_Kind(w) == w.kind

\* task.assigned_to = investigator.name
AssignedName(w) == w.name

\* get_investigator_for_task with a non-empty roster.
Assign ==
  /\ pc = "assign" /\ k <= Len(tasks)
  /\ roster # <<>>
  /\ investigator' = RoundRobin(roster, investigator_idx)
  /\ tasks' = [tasks EXCEPT ![k].assigned_to = AssignedName(investigator')]
  /\ SetLog(Emit(LogState, editor_name, "assigned task"))
  /\ investigator_idx' = Advance(roster, investigator_idx)
  /\ pc' = "solve"
  /\ UNCHANGED <<cfgVars, otherVars, lead, lead_file_handler, all_loggers_for_lead, i,
                 original_handlers_map, original_propagate_map, exc, result,
                 k, solved_tasks, outcome, histVars>>

\* get_investigator_for_task with an empty roster: error record, then
\* ValueError, which leaves editor._run, editor.run and the try block.
AssignFails ==
  /\ pc = "assign" /\ k <= Len(tasks)
  /\ roster = <<>>
  /\ SetLog(Emit(LogState, editor_name, "No investigators available"))
  /\ exc' = "ValueError"
  /\ pc' = FinallyPc
  /\ i' = 1
  /\ UNCHANGED <<cfgVars, otherVars, investigator_idx, lead, lead_file_handler,
                 all_loggers_for_lead, original_handlers_map,
                 original_propagate_map, result, editVars, histVars>>

\* ---------------------------------------------------------------------
\* solve_task -> investigator.run(task=task) -> BaseInvestigator._run
\* ---------------------------------------------------------------------
workerKeep == <<cfgVars, otherVars, investigator_idx, lead, lead_file_handler,
                all_loggers_for_lead, i, original_handlers_map,
                original_propagate_map, exc, result, runs, pre_handlers,
                pre_propagate, pre_files, pre_open, idx_at_start>>

\* investigator.run: start marker; _run validates the task and logs
\* "[Investigator] Starting task".
SolveTask ==
  /\ pc = "solve"
  /\ SetLog(EmitAll(LogState,
                    RunBegins(investigator.name,
                              << <<investigator.name, "[Investigator] Starting task">> >>)))
  /\ worker_calls' = worker_calls + 1
  /\ pc' = "investigate"
  /\ UNCHANGED <<workerKeep, editVars, outcomes>>

\* BasicInvestigatorOne.investigate(self, task) is called as
\* self.investigate(logger_to_use, task): the call raises TypeError
\* before the body runs.
InvestigateOne ==
  /\ pc = "investigate" /\ investigator.kind = "BasicInvestigatorOne"
  /\ outcome' = "raised"
  /\ outcomes' = Append(outcomes, "raised")
  /\ pc' = "handle"
  /\ UNCHANGED <<workerKeep, logVars, tasks, k, solved_tasks, investigator,
                 worker_calls>>

\* The body shared by the shipped investigators: result, status "done",
\* completed_at, with a record before and after.
Solved(task) == [task EXCEPT !.has_result = TRUE, !.status = "done",
                             !.completed = TRUE]

\* BasicInvestigatorTwo.investigate(logger_to_use, task)
InvestigateTwo ==
  /\ pc = "investigate" /\ investigator.kind = "BasicInvestigatorTwo"
  /\ SetLog(EmitAll(LogState, << <<investigator.name, "processing task">>,
                                <<investigator.name, "completed task">> >>))
  /\ tasks' = [tasks EXCEPT ![k] = Solved(tasks[k])]
  /\ outcome' = "returned"
  /\ outcomes' = Append(outcomes, "returned")
  /\ pc' = "handle"
  /\ UNCHANGED <<workerKeep, k, solved_tasks, investigator, worker_calls>>

\* A custom investigate(logger_to_use, task): on odd-numbered tasks it
\* fills in the task and then raises, on even-numbered ones it returns.
CustomRaises(task) == task.task_id % 2 = 1

InvestigateCustomRaises ==
  /\ pc = "investigate" /\ investigator.kind = "Custom"
  /\ CustomRaises(tasks[k])
  /\ SetLog(Emit(LogState, investigator.name, "processing task"))
  /\ tasks' = [tasks EXCEPT ![k] = Solved(tasks[k])]
  /\ outcome' = "raised"
  /\ outcomes' = Append(outcomes, "raised")
  /\ pc' = "handle"
  /\ UNCHANGED <<workerKeep, k, solved_tasks, investigator, worker_calls>>

InvestigateCustomReturns ==
  /\ pc = "investigate" /\ investigator.kind = "Custom"
  /\ ~CustomRaises(tasks[k])
  /\ SetLog(EmitAll(LogState, << <<investigator.name, "processing task">>,
                                <<investigator.name, "completed task">> >>))
  /\ tasks' = [tasks EXCEPT ![k] = Solved(tasks[k])]
  /\ outcome' = "returned"
  /\ outcomes' = Append(outcomes, "returned")
  /\ pc' = "handle"
  /\ UNCHANGED <<workerKeep, k, solved_tasks, investigator, worker_calls>>

\* (the except clause leaving the status as it is)
Failed_KeepsStatus(task) == task

\* (the except clause putting the task back to "pending")
Failed_BackToPending(task) == [task EXCEPT !.status = "pending"]

\* except Exception: task.status = "failed"
Failed(task) == [task EXCEPT !.status = "failed"]

\* (the loop stepping over every other task)
NextTask_SkipsOne(t) == t + 2

\* for task in tasks: the loop moves on to the next task of the plan.
NextTask(t) == t + 1

\* (insert(0, ...) instead of append)
AppendSolved_Front(st, t) == <<t>> \o st

\* solved_tasks.append(solved_task): the list holds the task objects,
\* here their positions in the plan.
AppendSolved(st, t) == Append(st, t)

\* investigate returned: "succeeded", finish marker, back in the editor
\* loop the task is appended.
InvestigatorSucceeds ==
  /\ pc = "handle" /\ outcome = "returned"
  /\ SetLog(EmitAll(LogState,
                    RunEnds(investigator.name,
                            << <<investigator.name, "[Investigator] Task succeeded">> >>)))
  /\ solved_tasks' = AppendSolved(solved_tasks, k)
  /\ k' = NextTask(k)
  /\ outcome' = "none"
  /\ pc' = "assign"
  /\ UNCHANGED <<workerKeep, tasks, investigator, worker_calls, outcomes>>

\* investigate raised: warning, status forced to "failed", the task is
\* returned and appended all the same.
InvestigatorFails ==
  /\ pc = "handle" /\ outcome = "raised"
  /\ SetLog(EmitAll(LogState,
                    RunEnds(investigator.name,
                            << <<investigator.name, "[Investigator] Task failed">> >>)))
  /\ tasks' = [tasks EXCEPT ![k] = Failed(tasks[k])]
  /\ solved_tasks' = AppendSolved(solved_tasks, k)
  /\ k' = NextTask(k)
  /\ outcome' = "none"
  /\ pc' = "assign"
  /\ UNCHANGED <<workerKeep, investigator, worker_calls, outcomes>>

\* The loop is over: "[Editor] Completed", the editor's finish marker,
\* the newsroom's "finished processing", return solved_tasks.
EditorReturns ==
  /\ pc = "assign" /\ k > Len(tasks)
  /\ SetLog(EmitAll(LogState,
                    RunEnds(editor_name, << <<editor_name, "[Editor] Completed lead">> >>)
                    \o << <<RoomName, "finished processing lead">> >>))
  /\ result' = solved_tasks
  /\ pc' = FinallyPc
  /\ i' = 1
  /\ UNCHANGED <<cfgVars, otherVars, investigator_idx, lead, lead_file_handler,
                 all_loggers_for_lead, original_handlers_map,
                 original_propagate_map, exc, editVars, histVars>>

\* ---------------------------------------------------------------------
\* NewsRoom.run: the finally clause
\* ---------------------------------------------------------------------
\* (the saved handlers never found)
GetHandlers_Nothing(m, n) == <<>>

\* original_handlers_map.get(logger, []) / original_propagate_map.get(logger, False)
GetHandlers(m, n) == IF n \in DOMAIN m THEN m[n] ELSE <<>>
\* (propagate always reset to the default)
GetPropagate_DefaultOnly(m, n) == FALSE
GetPropagate(m, n) == IF n \in DOMAIN m THEN m[n] ELSE FALSE

\* One iteration of the restore loop: detach the sink, re-add the saved
\* handlers, restore propagate.
RestoreStep ==
  /\ pc = "restore" /\ i <= Len(all_loggers_for_lead)
  /\ LET n == all_loggers_for_lead[i]
     IN /\ handlers' = [handlers EXCEPT ![n] =
                          addHandlers(removeHandler(handlers[n], lead_file_handler),
                                      GetHandlers(original_handlers_map, n))]
        /\ propagate' = [propagate EXCEPT ![n] = GetPropagate(original_propagate_map, n)]
  /\ i' = i + 1
  /\ pc' = IF i = Len(all_loggers_for_lead) THEN "close" ELSE "restore"
  /\ UNCHANGED <<cfgVars, otherVars, open_streams, files, reached, emitted, investigator_idx, lead,
                 lead_file_handler, all_loggers_for_lead, original_handlers_map,
                 original_propagate_map, exc, result, editVars, histVars>>

\* lead_file_handler.close(); the call is then left, with the result or
\* the exception.
CloseSink ==
  /\ pc = "close"
  /\ open_streams' = open_streams \ {lead_file_handler}
  /\ pc' = "done"
  /\ UNCHANGED <<cfgVars, otherVars, handlers, propagate, files, reached, emitted, investigator_idx,
                 lead, lead_file_handler, all_loggers_for_lead, i,
                 original_handlers_map, original_propagate_map, exc, result,
                 editVars, histVars>>

\* The caller has the result (or the exception) and may call run again.
Return ==
  /\ pc = "done"
  /\ pc' = "idle"
  /\ runs' = runs + 1
  /\ UNCHANGED <<cfgVars, otherVars, logVars, investigator_idx, lead, lead_file_handler,
                 all_loggers_for_lead, i, original_handlers_map,
                 original_propagate_map, exc, result, editVars, pre_handlers,
                 pre_propagate, pre_files, pre_open, idx_at_start, worker_calls,
                 outcomes>>

\* ---------------------------------------------------------------------
\* run called on a role directly, without the keyword argument it needs
\* ---------------------------------------------------------------------
\* What a caller can pass instead of task=<InvestigationTask> or
\* lead=<Lead>: nothing, or an object of another type.
BadArgs == {"missing", "other type"}

\* isinstance(task, InvestigationTask)
IsTask(a) == a = "InvestigationTask"

Workers == {investigators[j] : j \in 1..Len(investigators)}
             \cup {roster[j] : j \in 1..Len(roster)}

\* The state the caller compares with after a direct call.
DirectSnapshot ==
  /\ pre_handlers' = handlers
  /\ pre_propagate' = propagate
  /\ pre_files' = files
  /\ pre_open' = open_streams
  /\ worker_calls' = 0
  /\ outcomes' = <<>>
  /\ UNCHANGED <<runs, idx_at_start>>

\* worker.run(...) without task=<InvestigationTask>: start marker, then
\* BaseInvestigator._run logs the error and raises ValueError.
InvestigatorRunRejected(w, a) ==
  /\ pc = "idle" /\ runs < MaxRuns
  /\ ~IsTask(a)
  /\ LET ls0 == [LogState EXCEPT !.reached = {}, !.emitted = <<>>]
     IN SetLog(EmitAll(ls0, RunBegins(w.name,
                              << <<w.name, "'task' argument must be provided">> >>)))
  /\ exc' = "ValueError"
  /\ pc' = "rejected"
  /\ DirectSnapshot
  /\ UNCHANGED <<cfgVars, otherVars, investigator_idx, lead, lead_file_handler,
                 all_loggers_for_lead, i, original_handlers_map,
                 original_propagate_map, result, editVars>>

\* editor.run(...) without lead=<Lead>: start marker, then
\* BaseEditor._run logs the error and raises ValueError.
EditorRunRejected(a) ==
  /\ pc = "idle" /\ runs < MaxRuns
  /\ ~IsLead(a)
  /\ LET ls0 == [LogState EXCEPT !.reached = {}, !.emitted = <<>>]
     IN SetLog(EmitAll(ls0, RunBegins(editor_name,
                              << <<editor_name, "'lead' argument must be provided">> >>)))
  /\ exc' = "ValueError"
  /\ pc' = "rejected"
  /\ DirectSnapshot
  /\ UNCHANGED <<cfgVars, otherVars, investigator_idx, lead, lead_file_handler,
                 all_loggers_for_lead, i, original_handlers_map,
                 original_propagate_map, result, editVars>>

\* The caller has the ValueError and may call again.
RejectedReturns ==
  /\ pc = "rejected"
  /\ pc' = "idle"
  /\ runs' = runs + 1
  /\ UNCHANGED <<cfgVars, otherVars, logVars, investigator_idx, lead, lead_file_handler,
                 all_loggers_for_lead, i, original_handlers_map,
                 original_propagate_map, exc, result, editVars, pre_handlers,
                 pre_propagate, pre_files, pre_open, idx_at_start, worker_calls,
                 outcomes>>

Next ==
  \/ \E l \in Leads : BeginRun(l)
  \/ \E l \in Leads : BeginRunNoJournal(l)
  \/ \E l \in LeadIds : OpenSinkFails(l)
  \/ CaptureStep
  \/ ReceiveLead
  \/ ReceiveLeadInvalid
  \/ \E n \in 0..MaxTasks : GeneratePlan(n)
  \/ Assign
  \/ AssignFails
  \/ SolveTask
  \/ InvestigateOne
  \/ InvestigateTwo
  \/ InvestigateCustomRaises
  \/ InvestigateCustomReturns
  \/ InvestigatorSucceeds
  \/ InvestigatorFails
  \/ EditorReturns
  \/ RestoreStep
  \/ CloseSink
  \/ Return
  \/ \E w \in Workers, a \in BadArgs : InvestigatorRunRejected(w, a)
  \/ \E a \in BadArgs : EditorRunRejected(a)
  \/ RejectedReturns

Spec == Init /\ [][Next]_vars

\* ---------------------------------------------------------------------
\* Faults of the infrastructure inside the capture loop
\* ---------------------------------------------------------------------
FirstFileHandlerAt(s) ==
  SetMinIndex({j \in 1..Len(s) : s[j].kind = "FileHandler"})

\* h.close() raises OSError for the first file handler of the i-th logger
\* (the flush fails): the logger's state has been saved, the handlers
\* before h have been removed, the stream of h is released, and the
\* error leaves run, the loop standing outside the try block.
CaptureFails ==
  /\ pc = "capture" /\ i <= Len(all_loggers_for_lead)
  /\ LET n == all_loggers_for_lead[i]
     IN /\ FileHandlersOf(handlers[n]) # {}
        /\ original_handlers_map' = (n :> handlers[n]) @@ original_handlers_map
        /\ original_propagate_map' = (n :> propagate[n]) @@ original_propagate_map
        /\ LET j == FirstFileHandlerAt(handlers[n])
           IN /\ handlers' = [handlers EXCEPT ![n] = SubSeq(@, j, Len(@))]
              /\ open_streams' = open_streams \ {handlers[n][j]}
  /\ exc' = "OSError"
  /\ pc' = "done"
  /\ UNCHANGED <<cfgVars, otherVars, propagate, files, reached, emitted, investigator_idx,
                 lead, lead_file_handler, all_loggers_for_lead, i, result,
                 editVars, histVars>>

NextInfra == Next \/ CaptureFails

SpecInfra == Init /\ [][NextInfra]_vars

\* ---------------------------------------------------------------------
\* utils.logging_utils.redirect_loggers_to_handler (a context manager)
\* ---------------------------------------------------------------------
\* an element of the loggers argument that is not a Logger
NotALogger == "not a logger"

\* The loggers argument: lists without repetition of up to MaxLoggers
\* elements.
RedirectPool == {RoomName, EditorDefaultName, Two.name, NotALogger}
LoggerLists ==
  UNION {{ls \in [1..m -> RedirectPool] :
            \A a, b \in 1..m : a # b => ls[a] # ls[b]} : m \in 0..MaxLoggers}

\* The target_handler argument: a handler of its own, or one that is
\* attached to the newsroom's logger already.
TargetHandlers ==
  {FileHandler("redirected", 0), StreamHandler(RoomName), NullHandler(RoomName)}

redirKeep == <<cfgVars, secondVars, setupVars, investigator_idx, roomVars, editVars,
               pre_files, pre_open, idx_at_start, worker_calls, outcomes>>

\* with redirect_loggers_to_handler(ls, t): original_states = {}
RedirectEnter(ls, t) ==
  /\ r_pc = "idle" /\ pc = "idle" /\ runs < MaxRuns
  /\ loggers' = ls
  /\ target_handler' = t
  /\ original_states' = EmptyMap
  /\ r_i' = 1
  /\ r_exc' = "none"
  /\ r_pc' = IF ls = <<>> THEN "body" ELSE "capture"
  /\ pre_handlers' = handlers
  /\ pre_propagate' = propagate
  /\ reached' = {}
  /\ emitted' = <<>>
  /\ UNCHANGED <<redirKeep, runs, handlers, propagate, open_streams, files>>

\* One iteration of the loop in the try block: save the state, remove
\* every handler (none is closed), attach the target, propagate off.
RedirectCapture ==
  /\ r_pc = "capture" /\ r_i <= Len(loggers)
  /\ loggers[r_i] # NotALogger
  /\ LET n == loggers[r_i]
     IN /\ original_states' =
             (n :> [handlers |-> handlers[n], propagate |-> propagate[n]])
               @@ original_states
        /\ handlers' = [handlers EXCEPT ![n] = addHandler(<<>>, target_handler)]
        /\ propagate' = [propagate EXCEPT ![n] = FALSE]
  /\ r_i' = r_i + 1
  /\ r_pc' = IF r_i = Len(loggers) THEN "body" ELSE "capture"
  /\ UNCHANGED <<redirKeep, runs, pre_handlers, pre_propagate, open_streams,
                 files, reached, emitted, loggers, target_handler, r_exc>>

\* logger_instance.handlers on an element that is not a Logger raises
\* AttributeError inside the try block: control goes to the finally
\* clause.
RedirectCaptureFails ==
  /\ r_pc = "capture" /\ r_i <= Len(loggers)
  /\ loggers[r_i] = NotALogger
  /\ r_exc' = "AttributeError"
  /\ r_i' = 1
  /\ r_pc' = "restore"
  /\ UNCHANGED <<redirKeep, runs, pre_handlers, pre_propagate, logVars,
                 loggers, target_handler, original_states>>

\* The with block: it logs on the first logger and then ends or raises;
\* either way the generator resumes at the yield and enters finally.
RedirectBody(raises) ==
  /\ r_pc = "body"
  /\ SetLog(IF loggers = <<>> THEN LogState
            ELSE Emit(LogState, loggers[1], "inside the with block"))
  /\ r_exc' = IF raises THEN "BodyError" ELSE "none"
  /\ r_i' = 1
  /\ r_pc' = IF loggers = <<>> THEN "exited" ELSE "restore"
  /\ UNCHANGED <<redirKeep, runs, pre_handlers, pre_propagate, loggers,
                 target_handler, original_states>>

\* (the finally clause without removeHandler(target_handler))
RestoredHandlers_TargetKept(cur, t, saved) == addHandlers(cur, saved)

\* logger_instance.removeHandler(target_handler), then addHandler for
\* each saved handler.
RestoredHandlers(cur, t, saved) == addHandlers(removeHandler(cur, t), saved)

\* One iteration of the loop in the finally clause.
RedirectRestore ==
  /\ r_pc = "restore" /\ r_i <= Len(loggers)
  /\ loggers[r_i] # NotALogger
  /\ LET n == loggers[r_i]
     IN IF n \in DOMAIN original_states
        THEN /\ handlers' = [handlers EXCEPT ![n] =
                               RestoredHandlers(@, target_handler,
                                                original_states[n].handlers)]
             /\ propagate' = [propagate EXCEPT ![n] = original_states[n].propagate]
        ELSE /\ handlers' = [handlers EXCEPT ![n] = removeHandler(@, target_handler)]
             /\ UNCHANGED propagate
  /\ r_i' = r_i + 1
  /\ r_pc' = IF r_i = Len(loggers) THEN "exited" ELSE "restore"
  /\ UNCHANGED <<redirKeep, runs, pre_handlers, pre_propagate, open_streams,
                 files, reached, emitted, loggers, target_handler,
                 original_states, r_exc>>

\* removeHandler on the element that is not a Logger raises
\* AttributeError inside the finally clause: the loop is abandoned.
RedirectRestoreFails ==
  /\ r_pc = "restore" /\ r_i <= Len(loggers)
  /\ loggers[r_i] = NotALogger
  /\ r_exc' = "AttributeError"
  /\ r_pc' = "exited"
  /\ UNCHANGED <<redirKeep, runs, pre_handlers, pre_propagate, logVars,
                 loggers, target_handler, r_i, original_states>>

\* The with statement is left; the caller may enter another one.
RedirectExit ==
  /\ r_pc = "exited"
  /\ r_pc' = "idle"
  /\ runs' = runs + 1
  /\ loggers' = <<>>
  /\ target_handler' = NoHandler
  /\ original_states' = EmptyMap
  /\ r_i' = 1
  /\ r_exc' = "none"
  /\ UNCHANGED <<redirKeep, pre_handlers, pre_propagate, logVars>>

\* A process that only uses the context manager, on the loggers of the
\* shipped room.
InitRedirect ==
  /\ Init
  /\ journal_dir /\ editor_name = EditorDefaultName
  /\ investigators = <<One, Two>> /\ roster = <<One, Two>>

NextRedirect ==
  \/ \E ls \in LoggerLists, t \in TargetHandlers : RedirectEnter(ls, t)
  \/ RedirectCapture
  \/ RedirectCaptureFails
  \/ \E raises \in BOOLEAN : RedirectBody(raises)
  \/ RedirectRestore
  \/ RedirectRestoreFails
  \/ RedirectExit

SpecRedirect == InitRedirect /\ [][NextRedirect]_vars

TypeOK ==
  /\ pc \in {"idle", "capture", "try", "plan", "assign", "solve", "investigate",
             "handle", "restore", "close", "done", "rejected", "suspended"}
  /\ investigator_idx \in Nat
  /\ runs \in 0..MaxRuns
  /\ s_calls \in 0..MaxSetups

\* ---------------------------------------------------------------------
\* Properties
\* ---------------------------------------------------------------------
Participants == {AllLoggersForLead[j] : j \in 1..Len(AllLoggersForLead)}
DistinctLoggers == Cardinality(Participants) = Len(AllLoggersForLead)
SinkOpened == lead_file_handler # NoHandler
Restored(n) == handlers[n] = pre_handlers[n] /\ propagate[n] = pre_propagate[n]

C2_SharedLoggerRestored ==
  (SinkOpened /\ ~DistinctLoggers /\ pc = "done") =>
    \A n \in Participants :
      Restored(n) /\ ~InSeq(handlers[n], lead_file_handler)

\* C3: once a worker's investigate has been invoked in a run, the run
\* ends without an exception, every task of the plan has been executed
\* (also those after a failing one) and is in the returned list, with
\* status "failed" where investigate raised and "done" where it returned.
C3_FailureContainment ==
  (pc = "done" /\ worker_calls > 0) =>
    /\ exc = "none"
    /\ Len(outcomes) = Len(tasks)
    /\ \A t \in 1..Len(tasks) :
         /\ InSeq(result, t)
         /\ outcomes[t] = "raised" => tasks[t].status = "failed"
         /\ outcomes[t] = "returned" => tasks[t].status = "done"

\* investigate raised for the first task and returned for the second
C3_Witness ==
  /\ pc = "done" /\ Len(outcomes) = 2
  /\ outcomes[1] = "raised" /\ outcomes[2] = "returned"
  /\ tasks[result[1]].status = "failed" /\ tasks[result[2]].status = "done"

\* BasicNewsRoom(): BasicEditor "BasicEditorForNewsRoom" over the list
\* [BasicInvestigatorOne(), BasicInvestigatorTwo()], handling a plan of
\* BasicEditor.generate_plan (two tasks).
ShippedRoom ==
  /\ editor_name = EditorDefaultName
  /\ investigators = <<One, Two>> /\ roster = <<One, Two>>

\* C4 (as claimed): the shipped BasicNewsRoom returns exactly two tasks,
\* task 1 assigned to BasicInvestigatorOne and task 2 to
\* BasicInvestigatorTwo, both "done" with a result and completed_at.
C4_ShippedRoomSolvesBoth ==
  (ShippedRoom /\ pc = "done" /\ exc # "OSError" /\ Len(tasks) = 2) =>
    /\ exc = "none" /\ Len(result) = 2
    /\ tasks[result[1]].task_id = 1 /\ tasks[result[1]].assigned_to = One.name
    /\ tasks[result[2]].task_id = 2 /\ tasks[result[2]].assigned_to = Two.name
    /\ \A j \in 1..2 : /\ tasks[result[j]].status = "done"
                       /\ tasks[result[j]].has_result
                       /\ tasks[result[j]].completed

\* C5 (as claimed): in every planner run the i-th task (0-indexed) is
\* assigned to roster worker i mod M, also for later leads of the same
\* editor.
C5_RoundRobinFromZero ==
  (pc = "done" /\ exc = "none" /\ roster # <<>>) =>
    \A t \in 1..Len(tasks) :
      tasks[t].assigned_to = roster[((t - 1) % Len(roster)) + 1].name

\* C5 (amended): the i-th task (0-indexed) of a planner run is assigned to
\* roster worker (c + i) mod M, where c is the value of the editor's
\* counter when that run started; it holds for every task as soon as it
\* is assigned.
C5_RoundRobinFromCounter ==
  (roster # <<>> /\ pc \notin {"idle", "capture", "try", "plan"}) =>
    \A t \in 1..Len(tasks) :
      tasks[t].assigned_to # "" =>
        tasks[t].assigned_to =
          roster[((idx_at_start + t - 1) % Len(roster)) + 1].name

\* a later lead that started with the counter off a multiple of M
C5_Witness ==
  /\ pc = "done" /\ exc = "none" /\ runs = 1 /\ Len(roster) = 2
  /\ idx_at_start % Len(roster) = 1
  /\ Len(tasks) = 2 /\ tasks[1].assigned_to = roster[2].name
  /\ tasks[2].assigned_to = roster[1].name
  /\ roster[1].name # roster[2].name

\* C6: when run returns, the returned list is the generated plan: one
\* entry per task, the same task objects in generation order, each
\* "done" or "failed"; it is empty only for an empty plan.
C6_OneEntryPerTaskInOrder ==
  (pc = "done" /\ exc = "none") =>
    /\ result = [t \in 1..Len(tasks) |-> t]
    /\ \A t \in 1..Len(tasks) :
         tasks[t].task_id = t /\ tasks[t].status \in {"done", "failed"}
    /\ result = <<>> => Len(tasks) = 0

\* a returned list of two, the first failed and the second done
C6_Witness ==
  /\ pc = "done" /\ exc = "none" /\ result = <<1, 2>>
  /\ tasks[1].status = "failed" /\ tasks[2].status = "done"

SameTasks == DOMAIN tasks \cap DOMAIN tasks'

\* C7 (as claimed): once a task's status is "done" or "failed" it never
\* changes again.
C7_TerminalStatusFrozen ==
  [][\A t \in SameTasks :
       tasks[t].status \in {"done", "failed"} =>
         tasks'[t].status = tasks[t].status]_vars

\* C7 (amended): a task starts "pending", never returns to "pending",
\* and "failed" is final; the only change of a terminal status is done ->
\* failed, made by the worker's _run when investigate raised after having
\* marked that task done.
C7_StatusNeverRegresses ==
  [][\A t \in SameTasks :
       /\ tasks[t].status = "failed" => tasks'[t].status = "failed"
       /\ tasks[t].status = "done" => tasks'[t].status \in {"done", "failed"}
       /\ (tasks[t].status = "done" /\ tasks'[t].status = "failed") =>
            (pc = "handle" /\ outcome = "raised" /\ t = k)
       /\ tasks'[t].status \in {"pending", "done", "failed"}]_vars

\* a task that investigate filled in and that ended "failed"
C7_Witness ==
  \E t \in 1..Len(tasks) : tasks[t].status = "failed" /\ tasks[t].has_result

\* Records appended to the lead's file since the call began.
PreLen == IF lead \in DOMAIN pre_files THEN Len(pre_files[lead]) ELSE 0
NewRecords == IF lead \in DOMAIN files
              THEN SubSeq(files[lead], PreLen + 1, Len(files[lead])) ELSE <<>>
NamesIn(recs) == {recs[j].name : j \in 1..Len(recs)}

\* C8 (as claimed): a run with a journal_dir leaves exactly one new
\* artifact, the lead's file, holding a line of every participant logger.
C8_EveryParticipantLogged ==
  (pc = "done" /\ SinkOpened) =>
    /\ DOMAIN files = DOMAIN pre_files \cup {lead}
    /\ Participants \subseteq NamesIn(NewRecords)

\* C8 (amended): a run with a journal_dir leaves exactly one new artifact,
\* the lead's file, holding a line of the newsroom, of the editor and of
\* every participant investigator that executed a task of the lead.
C8_ActiveParticipantsLogged ==
  (pc = "done" /\ SinkOpened) =>
    /\ DOMAIN files = DOMAIN pre_files \cup {lead}
    /\ {RoomName, editor_name} \subseteq NamesIn(NewRecords)
    /\ \A t \in 1..Len(outcomes) :
         tasks[t].assigned_to \in Participants =>
           tasks[t].assigned_to \in NamesIn(NewRecords)

\* a finished run in which one participant investigator got no task
C8_Witness ==
  /\ pc = "done" /\ SinkOpened /\ Len(outcomes) = 1
  /\ investigators = <<Two, Flaky>> /\ tasks[1].assigned_to = Flaky.name
  /\ Two.name \notin NamesIn(NewRecords)
  /\ Flaky.name \in NamesIn(NewRecords)

\* C9 (as claimed): between the redirect step and the cleanup every
\* participant logger has exactly the sink and propagate off, and every
\* record of the newsroom, the editor and the workers that execute a
\* task went to the sink and to no handler attached before the call.
C9_LogIsolation ==
  (SinkOpened /\ pc \in {"try", "plan", "assign", "solve", "investigate", "handle"}) =>
    /\ \A n \in Participants :
         handlers[n] = <<lead_file_handler>> /\ ~propagate[n]
    /\ reached \subseteq {lead_file_handler}

\* C10 (as claimed): with an empty roster and a non-empty plan run raises
\* ValueError, no worker was invoked, the counter did not move, and when
\* the caller sees the error every participant logger is restored and
\* the sink is closed.
C10_EmptyRosterRaisesRestored ==
  (pc = "done" /\ SinkOpened /\ roster = <<>> /\ Len(tasks) >= 1) =>
    /\ exc = "ValueError"
    /\ worker_calls = 0
    /\ investigator_idx = idx_at_start
    /\ \A n \in Participants : Restored(n)
    /\ lead_file_handler \notin open_streams

\* C11: without a journal_dir, at every step of a call every logger has
\* the handler list and the propagate flag of construction time, no sink
\* exists, no snapshot is taken and no file is created; when the call
\* returns, the returned list is the planner's solved_tasks, the plan in
\* generation order.
C11_NoJournalLeavesLoggingAlone ==
  ~journal_dir =>
    /\ \A n \in LoggerNames :
         /\ handlers[n] = InitialHandlers(app_configured)[n]
         /\ propagate[n] = InitialPropagate(app_configured)[n]
    /\ lead_file_handler = NoHandler
    /\ original_handlers_map = EmptyMap /\ original_propagate_map = EmptyMap
    /\ DOMAIN files = DOMAIN pre_files
    /\ DOMAIN files = (IF app_configured THEN LoggerNames ELSE {})
    /\ (pc = "done" /\ exc = "none") =>
         (result = solved_tasks /\ result = [t \in 1..Len(tasks) |-> t])

\* a call without journal_dir returned two tasks, on loggers that had
\* two handlers and propagation on, and it emitted records
C11_Witness ==
  /\ ~journal_dir /\ app_configured
  /\ pc = "done" /\ exc = "none" /\ result = <<1, 2>>
  /\ Len(emitted) > 0
  /\ \A n \in Participants : Len(handlers[n]) = 2 /\ propagate[n]

\* The planner's _run raised in the current call: the lead is not a Lead,
\* or a task was to be assigned from an empty roster.
PlannerRaised ==
  \/ ~IsLead(lead) /\ exc # "OSError"
  \/ roster = <<>> /\ Len(tasks) >= 1

\* C12: when the planner's _run raised ValueError (invalid lead or
\* assignment failure), the caller of NewsRoom.run gets that ValueError,
\* and at that moment the restore loop has run for every participant and
\* the sink has been closed (with distinct logger names: every
\* participant is detached from the sink and has its handlers and
\* propagate flag back); the exception in flight is not replaced while
\* the cleanup runs.
C12_PlannerErrorAfterCleanup ==
  /\ [](pc = "done" =>
         /\ PlannerRaised => exc = "ValueError"
         /\ (exc = "ValueError" /\ SinkOpened) =>
              /\ i = Len(all_loggers_for_lead) + 1
              /\ all_loggers_for_lead = AllLoggersForLead
              /\ lead_file_handler \notin open_streams
              /\ DistinctLoggers =>
                   \A n \in Participants :
                     Restored(n) /\ ~InSeq(handlers[n], lead_file_handler))
  /\ [][(pc \in {"restore", "close", "done"}) => exc' = exc]_vars

\* run raised the ValueError of an assignment from an empty roster, with
\* a sink, on loggers that had two handlers
C12_Witness ==
  /\ pc = "done" /\ exc = "ValueError" /\ SinkOpened /\ app_configured
  /\ roster = <<>> /\ Len(tasks) = 2 /\ Len(AllLoggersForLead) = 4
  /\ \E j \in 1..Len(emitted) : emitted[j].msg = "No investigators available"

\* Lifecycle markers and the records of the _run methods.
Rec(p) == [name |-> p[1], msg |-> p[2]]
IsMarker(r) == r.msg \in {"Starting execution", "Finished execution"}
EditorRunMsgs ==
  {"[Editor] Starting lead", "'lead' argument must be provided",
   "generating plan", "generated tasks", "assigned task",
   "No investigators available", "[Editor] Completed lead"}
WorkerRunMsgs ==
  {"[Investigator] Starting task", "processing task", "completed task",
   "[Investigator] Task succeeded", "[Investigator] Task failed"}
Positions(recs, r) == {j \in 1..Len(recs) : recs[j] = r}
WorkerMarkers(recs) ==
  SelectSeq(recs, LAMBDA r : IsMarker(r) /\ r.name # editor_name)
SetMax(S) == CHOOSE x \in S : \A y \in S : y <= x
SetMin(S) == CHOOSE x \in S : \A y \in S : x <= y

\* In recs the editor has one start marker and nfinish finish markers,
\* and every record of a _run and every worker marker lies after the
\* editor's start marker and before its finish marker.
EditorBrackets(recs, nfinish) ==
  LET S == Positions(recs, Rec(StartMarker(editor_name)))
      F == Positions(recs, Rec(FinishMarker(editor_name)))
  IN /\ Cardinality(S) = 1
     /\ Cardinality(F) = nfinish
     /\ \A j \in 1..Len(recs) :
          (\/ recs[j].msg \in EditorRunMsgs \cup WorkerRunMsgs
           \/ IsMarker(recs[j]) /\ recs[j].name # editor_name) =>
            /\ \A a \in S : a < j
            /\ \A b \in F : j < b

\* The worker markers of recs are one start/finish pair per executed
\* task, in task order, on the logger of the worker the task went to.
WorkerPairs(recs) ==
  LET W == WorkerMarkers(recs)
  IN /\ Len(W) = 2 * worker_calls
     /\ \A m \in 1..worker_calls :
          /\ W[2 * m - 1] = Rec(StartMarker(tasks[m].assigned_to))
          /\ W[2 * m] = Rec(FinishMarker(tasks[m].assigned_to))

\* Every record of a worker's _run has that worker's start marker as the
\* nearest marker before it and its finish marker as the nearest after.
WorkerRecordsInside(recs) ==
  \A j \in 1..Len(recs) :
    recs[j].msg \in WorkerRunMsgs =>
      LET before == {a \in 1..(j - 1) : IsMarker(recs[a])}
          after == {b \in (j + 1)..Len(recs) : IsMarker(recs[b])}
      IN /\ before # {} /\ after # {}
         /\ recs[SetMax(before)] = Rec(StartMarker(recs[j].name))
         /\ recs[SetMin(after)] = Rec(FinishMarker(recs[j].name))

\* C13 (as claimed): every invocation of the editor's and of a worker's
\* run emits exactly two markers, the start marker before and the finish
\* marker after every record of its _run, the worker pairs inside the
\* editor's pair, and returns the result of _run.
C13_TwoMarkersEveryInvocation ==
  (pc = "done" /\ exc # "OSError") =>
    /\ EditorBrackets(emitted, 1)
    /\ WorkerPairs(emitted) /\ WorkerRecordsInside(emitted)
    /\ result = solved_tasks

\* C13 (amended): every invocation of run whose _run returns emits
\* exactly two markers, the start marker before and the finish marker
\* after every record of its _run, and returns the result of _run; an
\* invocation whose _run raises emits the start marker only. Among the
\* records of the call, and in the lead's file, every worker pair lies
\* inside the editor's markers.
C13_MarkersBracketReturningRuns ==
  (pc = "done" /\ exc # "OSError") =>
    /\ EditorBrackets(emitted, IF exc = "none" THEN 1 ELSE 0)
    /\ WorkerPairs(emitted) /\ WorkerRecordsInside(emitted)
    /\ exc = "none" => result = solved_tasks
    /\ SinkOpened =>
         /\ EditorBrackets(NewRecords, IF exc = "none" THEN 1 ELSE 0)
         /\ WorkerRecordsInside(NewRecords)
         /\ \A m \in 1..Len(WorkerMarkers(NewRecords)) :
              WorkerMarkers(NewRecords)[m].msg =
                (IF m % 2 = 1 THEN "Starting execution" ELSE "Finished execution")

\* a call with a sink returned after two worker invocations, one of
\* which failed, all of them written to the lead's file
C13_Witness ==
  /\ pc = "done" /\ exc = "none" /\ SinkOpened /\ worker_calls = 2
  /\ outcomes = <<"raised", "returned">>
  /\ Len(WorkerMarkers(NewRecords)) = 4

\* C14: a lead that is not a Lead never reaches generate_plan or
\* get_investigator_for_task, and a worker's run without an
\* InvestigationTask never reaches investigate: the call raises
\* ValueError after the start marker and the error record, no task
\* exists or changes and the round-robin counter keeps its value.
C14_ContractViolationFailsFast ==
  /\ [](/\ pc \in {"plan", "assign", "solve", "investigate", "handle"} =>
             lead \in LeadIds
        /\ (lead = MemoId /\ pc \in {"restore", "close", "done"}) =>
             /\ exc = "ValueError" /\ tasks = <<>> /\ worker_calls = 0
             /\ investigator_idx = idx_at_start
             /\ Len(emitted) >= 3
             /\ emitted[Len(emitted) - 1] = Rec(StartMarker(editor_name))
             /\ emitted[Len(emitted)].msg = "'lead' argument must be provided"
        /\ pc = "rejected" =>
             /\ exc = "ValueError" /\ worker_calls = 0 /\ outcomes = <<>>
             /\ Len(emitted) = 2 /\ emitted[1].msg = "Starting execution"
             /\ emitted[2].msg \in {"'task' argument must be provided",
                                    "'lead' argument must be provided"})
  /\ [][pc' = "rejected" =>
          (tasks' = tasks /\ solved_tasks' = solved_tasks
           /\ investigator_idx' = investigator_idx)]_vars

\* after a call that solved two tasks and moved the counter, a worker's
\* run without a task was rejected
C14_Witness ==
  /\ pc = "rejected" /\ runs = 1 /\ investigator_idx = 2
  /\ Len(tasks) = 2 /\ tasks[2].status = "done"
  /\ emitted[2].msg = "'task' argument must be provided"

\* C15 (as claimed): when run raises OSError before the planner is
\* invoked (the sink cannot be opened, or the capture loop fails
\* partway), every logger whose state was saved has its saved handler
\* list and propagate flag when the caller sees the error, and the sink
\* is attached to none of them.
C15_InfraFailureRestoresCaptured ==
  (pc = "done" /\ exc = "OSError") =>
    \A n \in DOMAIN original_handlers_map :
      /\ handlers[n] = original_handlers_map[n]
      /\ propagate[n] = original_propagate_map[n]
      /\ ~InSeq(handlers[n], lead_file_handler)

\* C16 (as claimed): when a run with a journal_dir has returned or
\* raised, its sink is closed and attached to no participant logger, and
\* a record emitted after the call (here by a rejected direct call of a
\* role's run) changes no lead's file.
C16_SinkReleasedOnEveryExit ==
  /\ (pc = "done" /\ SinkOpened) =>
       /\ lead_file_handler \notin open_streams
       /\ \A n \in Participants : ~InSeq(handlers[n], lead_file_handler)
  /\ pc = "rejected" =>
       \A l \in Leads \cap DOMAIN files : files[l] = pre_files[l]

IsPrefix(a, b) == Len(a) <= Len(b) /\ SubSeq(b, 1, Len(a)) = a
ParticipantRecords == SelectSeq(emitted, LAMBDA r : r.name \in Participants)

\* C19: no file ever loses or changes a record it held when the current
\* call began, and when a run with a journal_dir has returned or raised
\* the lead's file holds what it held before the call followed by the
\* records the participants emitted during the call, in order.
C19_AppendAccumulation ==
  /\ \A p \in DOMAIN pre_files :
       p \in DOMAIN files /\ IsPrefix(pre_files[p], files[p])
  /\ (pc = "done" /\ SinkOpened) =>
       files[lead] = (IF lead \in DOMAIN pre_files THEN pre_files[lead] ELSE <<>>)
                       \o ParticipantRecords

\* a second run on the same lead_id added its records after those of
\* the first
C19_Witness ==
  /\ pc = "done" /\ SinkOpened /\ runs = 1 /\ exc = "none"
  /\ PreLen > 0 /\ Len(ParticipantRecords) > 0
  /\ Len(files[lead]) = PreLen + Len(ParticipantRecords)
  /\ files[lead][1].msg = "received lead"
  /\ files[lead][PreLen + 1].msg = "received lead"

LoggersOf(ls) == {ls[j] : j \in 1..Len(ls)} \ {NotALogger}

\* C20 (as claimed): inside the with block every logger of the list has
\* exactly [target_handler] and propagate off; after the exit, normal or
\* by an exception of the block or of the capture loop, every logger
\* whose state was saved has its handler list and propagate flag of
\* before the entry, and target_handler is attached to none of them.
C20_RedirectRoundTripDetached ==
  /\ r_pc = "body" =>
       \A n \in LoggersOf(loggers) :
         handlers[n] = <<target_handler>> /\ ~propagate[n]
  /\ r_pc = "exited" =>
       \A n \in DOMAIN original_states :
         /\ handlers[n] = pre_handlers[n] /\ propagate[n] = pre_propagate[n]
         /\ ~InSeq(handlers[n], target_handler)

\* C20 (amended): inside the with block every logger of the list has
\* exactly [target_handler] and propagate off; after the exit, normal or
\* by an exception of the block or of the capture loop, every logger
\* whose state was saved has its handler list, in order, and its
\* propagate flag of before the entry, so that target_handler is
\* attached to it only if it was before the entry; after a block that
\* was entered every logger of the list has been saved and restored.
C20_RedirectRoundTrip ==
  /\ r_pc = "body" =>
       /\ DOMAIN original_states = LoggersOf(loggers)
       /\ \A n \in LoggersOf(loggers) :
            handlers[n] = <<target_handler>> /\ ~propagate[n]
  /\ r_pc = "exited" =>
       /\ \A n \in DOMAIN original_states :
            /\ handlers[n] = pre_handlers[n] /\ propagate[n] = pre_propagate[n]
            /\ original_states[n].handlers = pre_handlers[n]
            /\ InSeq(handlers[n], target_handler) =>
                 InSeq(pre_handlers[n], target_handler)
       /\ r_exc \in {"none", "BodyError"} =>
            DOMAIN original_states = LoggersOf(loggers)

\* the capture loop failed at the third element, after two loggers with
\* two handlers each had been redirected to a handler of its own
C20_Witness ==
  /\ r_pc = "exited" /\ r_exc = "AttributeError" /\ Len(loggers) = 3
  /\ loggers[3] = NotALogger /\ DOMAIN original_states = {loggers[1], loggers[2]}
  /\ target_handler = FileHandler("redirected", 0)
  /\ \A n \in DOMAIN original_states : Len(handlers[n]) = 2 /\ propagate[n]

\* ---------------------------------------------------------------------
\* A second NewsRoom.run on the same room while the first is in progress
\* ---------------------------------------------------------------------
\* The second invocation has its own locals (sink, loop index, the two
\* maps); the loggers are shared. Its lead yields an empty plan.
twoKeep == <<cfgVars, redirVars, setupVars, investigator_idx, lead, lead_file_handler,
             all_loggers_for_lead, i, original_handlers_map,
             original_propagate_map, exc, result, editVars, histVars>>

SecondSink(l) == Sink(l, MaxRuns + 1)

OpenSecondSink(l) ==
  /\ lead_file_handler2' = SecondSink(l)
  /\ files' = OpenAppend(files, l)
  /\ open_streams' = open_streams \cup {SecondSink(l)}
  /\ i2' = 1
  /\ pc2' = "capture"
  /\ original_handlers_map2' = EmptyMap
  /\ original_propagate_map2' = EmptyMap
  /\ restored_late2' = {}
  /\ UNCHANGED <<handlers, propagate, reached, emitted>>

\* run(l) called from inside generate_plan or investigate of the first
\* invocation: the first invocation waits until the second has finished.
BeginNestedRun(l) ==
  /\ mode2 = "none" /\ journal_dir
  /\ pc \in {"plan", "investigate"}
  /\ mode2' = "nested"
  /\ resume_pc' = pc
  /\ pc' = "suspended"
  /\ OpenSecondSink(l)
  /\ UNCHANGED twoKeep

\* run(l) called by another thread while the first invocation is
\* between its capture loop and the close of its sink.
BeginOverlappingRun(l) ==
  /\ mode2 = "none" /\ journal_dir
  /\ pc \in {"capture", "try", "plan", "assign", "solve", "investigate",
              "handle", "restore", "close"}
  /\ mode2' = "thread"
  /\ OpenSecondSink(l)
  /\ UNCHANGED <<twoKeep, pc, resume_pc>>

\* One iteration of the second invocation's capture loop.
CaptureStep2 ==
  /\ pc2 = "capture" /\ i2 <= Len(AllLoggersForLead)
  /\ LET n == AllLoggersForLead[i2]
     IN /\ original_handlers_map2' = (n :> handlers[n]) @@ original_handlers_map2
        /\ original_propagate_map2' = (n :> propagate[n]) @@ original_propagate_map2
        /\ open_streams' = open_streams \ FileHandlersOf(handlers[n])
        /\ handlers' = [handlers EXCEPT ![n] = addHandler(<<>>, lead_file_handler2)]
        /\ propagate' = [propagate EXCEPT ![n] = FALSE]
  /\ i2' = i2 + 1
  /\ pc2' = IF i2 = Len(AllLoggersForLead) THEN "try" ELSE "capture"
  /\ UNCHANGED <<twoKeep, pc, resume_pc, mode2, lead_file_handler2,
                 restored_late2, files, reached, emitted>>

\* The second invocation's try block, for a lead with an empty plan.
Planner2 ==
  /\ pc2 = "try"
  /\ SetLog(EmitAll(LogState,
                    << <<RoomName, "received lead">> >> \o
                    RunBegins(editor_name, << <<editor_name, "[Editor] Starting lead">>,
                                              <<editor_name, "generating plan">>,
                                              <<editor_name, "generated tasks">> >>) \o
                    RunEnds(editor_name, << <<editor_name, "[Editor] Completed lead">> >>)
                    \o << <<RoomName, "finished processing lead">> >>))
  /\ i2' = 1
  /\ pc2' = "restore"
  /\ UNCHANGED <<twoKeep, pc, resume_pc, mode2, lead_file_handler2,
                 original_handlers_map2, original_propagate_map2,
                 restored_late2>>

\* The first invocation's finally clause is past the j-th logger.
FirstHasRestored(j) ==
  pc \in {"close", "done"} \/ (pc = "restore" /\ i > j)

\* One iteration of the second invocation's restore loop; restored_late2
\* records the loggers it restores after the first invocation did.
RestoreStep2 ==
  /\ pc2 = "restore" /\ i2 <= Len(AllLoggersForLead)
  /\ LET n == AllLoggersForLead[i2]
     IN /\ handlers' = [handlers EXCEPT ![n] =
                          addHandlers(removeHandler(handlers[n], lead_file_handler2),
                                      GetHandlers(original_handlers_map2, n))]
        /\ propagate' = [propagate EXCEPT ![n] = GetPropagate(original_propagate_map2, n)]
        /\ restored_late2' = IF FirstHasRestored(i2) THEN restored_late2 \cup {n}
                             ELSE restored_late2
  /\ i2' = i2 + 1
  /\ pc2' = IF i2 = Len(AllLoggersForLead) THEN "close" ELSE "restore"
  /\ UNCHANGED <<twoKeep, pc, resume_pc, mode2, lead_file_handler2,
                 original_handlers_map2, original_propagate_map2,
                 open_streams, files, reached, emitted>>

\* The second invocation closes its sink and returns; a nested one gives
\* control back to the first invocation.
CloseSink2 ==
  /\ pc2 = "close"
  /\ open_streams' = open_streams \ {lead_file_handler2}
  /\ pc2' = "done"
  /\ pc' = IF mode2 = "nested" THEN resume_pc ELSE pc
  /\ UNCHANGED <<twoKeep, resume_pc, mode2, lead_file_handler2, i2,
                 original_handlers_map2, original_propagate_map2,
                 restored_late2, handlers, propagate, files, reached, emitted>>

\* A room with a journal_dir, the default editor name and one custom
\* investigator (three distinct loggers), whose first invocation handles
\* a lead with a plan of one task and is not followed by a third call.
InitTwoCalls ==
  /\ Init
  /\ journal_dir /\ editor_name = EditorDefaultName
  /\ investigators = <<Flaky>> /\ roster = <<Flaky>>

NextTwoCalls ==
  \/ \E l \in LeadIds : BeginRun(l)
  \/ CaptureStep
  \/ ReceiveLead
  \/ GeneratePlan(1)
  \/ Assign
  \/ SolveTask
  \/ InvestigateCustomRaises
  \/ InvestigatorFails
  \/ EditorReturns
  \/ RestoreStep
  \/ CloseSink
  \/ \E l \in LeadIds : BeginNestedRun(l)
  \/ \E l \in LeadIds : BeginOverlappingRun(l)
  \/ CaptureStep2
  \/ Planner2
  \/ RestoreStep2
  \/ CloseSink2

SpecTwoCalls == InitTwoCalls /\ [][NextTwoCalls]_vars

BothFinished == pc = "done" /\ pc2 = "done"

\* C17: when a second invocation by another thread saved a logger while
\* the first invocation had it redirected, and restored it after the
\* first invocation had restored it, then with both invocations finished
\* that logger has the handlers of before the first call followed by the
\* first call's closed sink, and propagate off: it differs from its
\* state before either invocation. Such an interleaving exists.
C17_OverlapCorruptsLoggers ==
  (mode2 = "thread" /\ BothFinished) =>
    \A n \in Participants :
      (/\ n \in DOMAIN original_handlers_map2
       /\ original_handlers_map2[n] = <<lead_file_handler>>
       /\ n \in restored_late2) =>
        /\ handlers[n] = Append(pre_handlers[n], lead_file_handler)
        /\ handlers[n] # pre_handlers[n]
        /\ ~propagate[n]
        /\ lead_file_handler \notin open_streams

\* both invocations have finished, the second having started while the
\* first was redirected and finished after it, and every participant
\* logger differs in handlers and in propagate from before the calls
C17_Witness ==
  /\ mode2 = "thread" /\ BothFinished /\ app_configured /\ exc = "none"
  /\ restored_late2 = Participants
  /\ \A n \in Participants :
       /\ original_handlers_map2[n] = <<lead_file_handler>>
       /\ handlers[n] # pre_handlers[n] /\ propagate[n] # pre_propagate[n]

RedirectedLoggers == {all_loggers_for_lead[j] : j \in 1..Len(all_loggers_for_lead)}

\* C21 (as claimed): while the planner runs with a sink, the redirected
\* set contains the logger of every worker of the planner's roster, so
\* the logger of every worker get_investigator_for_task can return has
\* the sink as its only handler, also when the editor's roster differs
\* from the investigators given to the NewsRoom.
C21_RosterWorkersRedirected ==
  (SinkOpened /\ pc \in {"try", "plan", "assign", "solve", "investigate", "handle"}) =>
    \A j \in 1..Len(roster) :
      /\ roster[j].name \in RedirectedLoggers
      /\ handlers[roster[j].name] = <<lead_file_handler>>

\* ---------------------------------------------------------------------
\* C22: tasks are processed one after the other, in plan order
\* ---------------------------------------------------------------------
PlannerPcs == {"assign", "solve", "investigate", "handle"}
Terminal(task) == task.status \in {"done", "failed"}

\* The records of the current call that mark the steps of the editor's
\* loop: an assignment, a worker starting on a task, a worker leaving it.
LoopSteps ==
  SelectSeq(emitted, LAMBDA r : r.msg \in {"assigned task",
                                           "[Investigator] Starting task",
                                           "[Investigator] Task succeeded",
                                           "[Investigator] Task failed"})

\* C22: the plan is generated before any assignment; while the editor's
\* loop runs, every task before the current one is assigned and
\* terminal and was appended in plan order, every task after it is
\* still pending and unassigned, and the current one is assigned exactly
\* from its assignment on; the records of the call are rounds of
\* "assigned, worker starts, worker ends", so no worker starts before
\* the one before it has ended.
C22_TasksStrictlySequential ==
  /\ pc \in PlannerPcs =>
       /\ k \in 1..(Len(tasks) + 1)
       /\ solved_tasks = [t \in 1..(k - 1) |-> t]
       /\ \A t \in 1..Len(tasks) :
            /\ t < k => (Terminal(tasks[t]) /\ tasks[t].assigned_to # "")
            /\ t > k => tasks[t] = NewTask(t)
            /\ (t = k /\ pc = "assign") => tasks[t] = NewTask(t)
            /\ (t = k /\ pc # "assign") => tasks[t].assigned_to # ""
       /\ Len(LoopSteps) = 3 * (k - 1) + (CASE pc = "assign" -> 0
                                            [] pc = "solve" -> 1
                                            [] OTHER -> 2)
  /\ \A m \in 1..Len(LoopSteps) :
       /\ m % 3 = 1 => LoopSteps[m].msg = "assigned task"
       /\ m % 3 = 2 => LoopSteps[m].msg = "[Investigator] Starting task"
       /\ m % 3 = 0 => LoopSteps[m].msg \in {"[Investigator] Task succeeded",
                                             "[Investigator] Task failed"}
  /\ \A a \in Positions(emitted, [name |-> editor_name, msg |-> "assigned task"]) :
       \E g \in Positions(emitted, [name |-> editor_name, msg |-> "generated tasks"]) :
         g < a

\* the second task is being executed by a worker after the first one
\* failed on another worker
C22_Witness ==
  /\ pc = "investigate" /\ k = 2 /\ Len(tasks) = 2
  /\ tasks[1].status = "failed" /\ tasks[2].status = "pending"
  /\ tasks[1].assigned_to # tasks[2].assigned_to
  /\ Len(LoopSteps) = 5

\* ---------------------------------------------------------------------
\* C23: the round-robin counter counts the assignments
\* ---------------------------------------------------------------------
Assigned(ts) == {t \in 1..Len(ts) : ts[t].assigned_to # ""}
AssignRecord == [name |-> editor_name, msg |-> "assigned task"]
PlanGenerated == \E j \in 1..Len(emitted) : emitted[j].msg = "generated tasks"

RECURSIVE SumOver(_, _)
SumOver(S, f) ==
  IF S = {} THEN 0
  ELSE LET x == CHOOSE y \in S : TRUE IN f[x] + SumOver(S \ {x}, f)

\* The "assigned task" records in all the leads' files.
AssignRecordsOnFile ==
  LET L == Leads \cap DOMAIN files
  IN SumOver(L, [l \in L |-> Cardinality(Positions(files[l], AssignRecord))])

\* C23: the counter moves only in a successful
\* get_investigator_for_task, by exactly one and at the moment the task
\* gets its assigned_to; the call that fails on an empty roster and
\* every other step, whatever the task's outcome, leave it unchanged.
\* Once a call has generated its plan the counter is its value at the
\* start of the call plus the number of assigned tasks of the plan, and
\* with a journal_dir it is the number of assignment records of all
\* leads' files, that is, of all the leads so far.
C23_CounterCountsAssignments ==
  /\ [](/\ investigator_idx >= 0
        /\ PlanGenerated =>
             investigator_idx = idx_at_start + Cardinality(Assigned(tasks))
        /\ journal_dir => investigator_idx = AssignRecordsOnFile)
  /\ [][/\ \/ investigator_idx' = investigator_idx
           \/ /\ investigator_idx' = investigator_idx + 1
              /\ pc = "assign" /\ pc' = "solve"
              /\ tasks[k].assigned_to = "" /\ tasks'[k].assigned_to # ""
        /\ (pc = "assign" /\ pc' = "solve") =>
             investigator_idx' = investigator_idx + 1
        /\ (pc = "assign" /\ exc' = "ValueError") =>
             investigator_idx' = investigator_idx]_vars

\* the second lead's first task has been assigned after a first lead
\* with two assigned tasks, all three assignments on file
C23_Witness ==
  /\ runs = 1 /\ pc = "solve" /\ k = 1
  /\ idx_at_start = 2 /\ investigator_idx = 3
  /\ journal_dir /\ AssignRecordsOnFile = 3

\* ---------------------------------------------------------------------
\* C24: the handlers attached before the call, open or closed
\* ---------------------------------------------------------------------
\* C24 (as claimed): after a run with a sink every handler that was
\* attached to a participant logger before the call is open exactly if
\* it was open before the call; the call closed its own sink only.
C24_OnlyOwnSinkClosed ==
  (pc = "done" /\ SinkOpened) =>
    \A n \in Participants :
      \A j \in 1..Len(pre_handlers[n]) :
        (pre_handlers[n][j] \in open_streams) <=> (pre_handlers[n][j] \in pre_open)

\* ---------------------------------------------------------------------
\* C25: one invocation per task, on the assigned worker
\* ---------------------------------------------------------------------
\* The records with which a worker's _run starts on a task.
WorkerStarts ==
  SelectSeq(emitted, LAMBDA r : r.msg = "[Investigator] Starting task")

SetupNames == {EditorDefaultName, Two.name}

\* What a logger may carry when _setup_logger finds it: nothing, the
\* NullHandler of __init__, the application's file and console handlers,
\* a console handler next to the NullHandler.
PriorHandlerLists(n) ==
  { <<>>, <<NullHandler(n)>>, <<FileHandler(n, 0), StreamHandler(n)>>,
    <<StreamHandler(n), NullHandler(n)>> }

\* journal_dir arguments: None, the empty string, a directory.
JournalDirs == {"none", "", "logs"}
\* log_filename arguments: None or a file name.
LogFilenames == {"none", "custom.log"}
\* datetime.now() falls on one of these days.
Days == {1, 2}

\* if journal_dir: / if log_filename:
Truthy(x) == x \notin {"none", ""}

\* Logger.hasHandlers(): the logger's own handlers, then its ancestors'
\* as long as propagate is set; a name without dots has the root logger
\* as its only ancestor.
HasHandlers(hs, pr, root, n) == hs[n] # <<>> \/ (pr[n] /\ root)

\* f"{logger_name}_{datetime.now().strftime('%Y-%m-%d')}.log"
DefaultLogFile(n, d) ==
  CASE n = EditorDefaultName /\ d = 1 -> "BasicEditorForNewsRoom_day1.log"
    [] n = EditorDefaultName /\ d = 2 -> "BasicEditorForNewsRoom_day2.log"
    [] n = Two.name /\ d = 1 -> "BasicInvestigatorTwo_day1.log"
    [] n = Two.name /\ d = 2 -> "BasicInvestigatorTwo_day2.log"

\* final_log_filename (the one directory of the model stands for
\* os.path.join(journal_dir, ...))
FinalLogFilename(n, fn, d) == IF Truthy(fn) THEN fn ELSE DefaultLogFile(n, d)

\* The handler list after lines 66-69: emptied when hasHandlers().
Cleared(n) ==
  IF HasHandlers(handlers, propagate, root_has_handlers, n) THEN <<>> ELSE handlers[n]

\* The file handlers closed on the way.
ClosedBySetup(n) ==
  IF HasHandlers(handlers, propagate, root_has_handlers, n)
  THEN FileHandlersOf(handlers[n]) ELSE {}

setupKeep == <<cfgVars, secondVars, redirVars, root_has_handlers, reached,
               emitted, investigator_idx, roomVars, editVars, histVars>>

\* A call that returns: the logger's handlers are closed and removed;
\* with a journal_dir a new FileHandler on the log file is added, without
\* one a console handler is added if hasHandlers() is still false;
\* propagate is switched off.
SetupLogger(n, jd, fn, d) ==
  /\ s_calls < MaxSetups /\ d >= s_day
  /\ LET fh == FileHandler(FinalLogFilename(n, fn, d), s_calls + 1)
         base == [handlers EXCEPT ![n] = Cleared(n)]
     IN IF Truthy(jd)
        THEN /\ handlers' = [handlers EXCEPT ![n] = addHandler(Cleared(n), fh)]
             /\ open_streams' = (open_streams \ ClosedBySetup(n)) \cup {fh}
             /\ files' = OpenAppend(files, fh.path)
        ELSE /\ handlers' =
                  [handlers EXCEPT ![n] =
                     IF ~HasHandlers(base, propagate, root_has_handlers, n)
                     THEN addHandler(Cleared(n), StreamHandler(n))
                     ELSE Cleared(n)]
             /\ open_streams' = open_streams \ ClosedBySetup(n)
             /\ files' = files
  /\ propagate' = [propagate EXCEPT ![n] = FALSE]
  /\ s_calls' = s_calls + 1
  /\ logger_name' = n /\ s_journal_dir' = jd /\ log_filename' = fn /\ s_day' = d
  /\ s_exc' = "none"
  /\ UNCHANGED setupKeep

\* os.makedirs or logging.FileHandler raises OSError: the handlers are
\* gone already, line 103 is not reached.
SetupLoggerFails(n, jd, fn, d) ==
  /\ s_calls < MaxSetups /\ d >= s_day
  /\ Truthy(jd)
  /\ handlers' = [handlers EXCEPT ![n] = Cleared(n)]
  /\ open_streams' = open_streams \ ClosedBySetup(n)
  /\ s_calls' = s_calls + 1
  /\ logger_name' = n /\ s_journal_dir' = jd /\ log_filename' = fn /\ s_day' = d
  /\ s_exc' = "OSError"
  /\ UNCHANGED <<setupKeep, propagate, files>>

\* The loggers as the calls may find them, under a root logger with or
\* without handlers.
InitSetup ==
  /\ editor_name = EditorDefaultName
  /\ investigators = <<One, Two>> /\ roster = <<One, Two>>
  /\ journal_dir = FALSE /\ app_configured = FALSE
  /\ \E a \in PriorHandlerLists(EditorDefaultName), b \in PriorHandlerLists(Two.name) :
       handlers = [n \in LoggerNames |->
                     IF n = EditorDefaultName THEN a
                     ELSE IF n = Two.name THEN b ELSE <<NullHandler(n)>>]
  /\ \E pa \in BOOLEAN, pb \in BOOLEAN :
       propagate = [n \in LoggerNames |->
                      IF n = EditorDefaultName THEN pa
                      ELSE IF n = Two.name THEN pb ELSE FALSE]
  /\ open_streams = UNION {FileHandlersOf(handlers[n]) : n \in SetupNames}
  /\ files = [p \in {h.path : h \in open_streams} |-> <<>>]
  /\ root_has_handlers \in BOOLEAN
  /\ InitFrames

NextSetup ==
  \/ \E n \in SetupNames, jd \in JournalDirs, fn \in LogFilenames, d \in Days :
       SetupLogger(n, jd, fn, d)
  \/ \E n \in SetupNames, jd \in JournalDirs, fn \in LogFilenames, d \in Days :
       SetupLoggerFails(n, jd, fn, d)

SpecSetup == InitSetup /\ [][NextSetup]_vars

\* C26 (as claimed): when a call of _setup_logger has returned, the
\* named logger has exactly one handler and propagate off, whatever it
\* carried before and however often it was configured: a file handler on
\* the given filename, or on <name>_<date>.log, when journal_dir is set,
\* a console handler when it is not.
C26_SetupLeavesOneHandler ==
  (s_calls > 0 /\ s_exc = "none") =>
    /\ Len(handlers[logger_name]) = 1
    /\ ~propagate[logger_name]
    /\ IF Truthy(s_journal_dir)
       THEN handlers[logger_name][1] =
              FileHandler(FinalLogFilename(logger_name, log_filename, s_day), s_calls)
       ELSE handlers[logger_name][1] = StreamHandler(logger_name)

====
